---------------------------- MODULE Spec2Model ----------------------------
(***************************************************************************)
(* Firestore client: document/collection references (Client.Collection,    *)
(* Client.Doc) and the batched document read Client.GetAll, as exercised   *)
(* by firestore/client_test.go; and the Spanner client's built-in metrics   *)
(* factory of spanner/metrics.go.                                          *)
(*                                                                         *)
(* A string is a sequence of one-character strings.  A byte that is not    *)
(* ASCII is written as a token naming its value ("xCF" is byte 0xCF).      *)
(***************************************************************************)
EXTENDS Integers, Sequences, FiniteSets, TLC

VARIABLES
    \* ---- Client.Collection / Client.Doc ----
    refPath,     \* the path argument
    collOut,     \* what Collection(refPath) returned, or NotCalled
    docOut,      \* what Doc(refPath) returned, or NotCalled
    \* ---- Client.GetAll ----
    docRefs,     \* the input list of *DocumentRef
    pc,          \* position of the call: "start", "recv", "done" ("off": no call)
    reqs,        \* the BatchGetDocuments requests sent so far
    docIndices,  \* doc name -> positions in docRefs
    resps,       \* the responses read from the stream so far
    recvErr,     \* what the last Recv returned besides a unit: NoErr, EOF, an error
    ctxErr,      \* the caller's context: NoErr, or why it is done
    docs,        \* the returned snapshots, or NoDocs
    err,         \* the returned error, or NoErr
    \* ---- newBuiltinMetricsTracerFactory ----
    emulatorAddr,    \* os.Getenv("BIGTABLE_EMULATOR_HOST")
    metricsProvider, \* the MetricsProvider argument
    uidErr,          \* does generateClientUID fail?
    exporterErr,     \* does newMonitoringExporter fail?
    meterFails,      \* the instruments whose creation the meter fails
    mpc,             \* "start", "returned", "closed" ("off": no call)
    metricsFactory,  \* the returned *builtinMetricsFactory, or NoFactory
    factoryErr,      \* the returned error, or NoErr
    stopped          \* the meter providers that were shut down

refVars == <<refPath, collOut, docOut>>
getVars == <<docRefs, pc, reqs, docIndices, resps, recvErr, ctxErr, docs, err>>
metVars == <<emulatorAddr, metricsProvider, uidErr, exporterErr, meterFails,
             mpc, metricsFactory, factoryErr, stopped>>
vars == <<refPath, collOut, docOut, docRefs, pc, reqs, docIndices, resps,
          recvErr, ctxErr, docs, err, emulatorAddr, metricsProvider, uidErr,
          exporterErr, meterFails, mpc, metricsFactory, factoryErr, stopped>>

(***************************************************************************)
(* Bounds.                                                                 *)
(***************************************************************************)
MaxPathLen == 7      \* longest path argument handed to Collection / Doc
MaxRefs == 3         \* longest input list handed to GetAll
MaxUnits == 3        \* most result units a stream delivers
MaxFairRefs == 2     \* longest input list under the fair specification

(***************************************************************************)
(* Values.                                                                 *)
(***************************************************************************)
NilRef == [kind |-> "nil"]
NotCalled == [kind |-> "notcalled"]
NoErr == [kind |-> "none"]
NoDocs == [kind |-> "nodocs"]
NoDoc == [kind |-> "nodoc"]      \* a nil *pb.Document
NoSnap == [kind |-> "nosnap"]    \* a nil *DocumentSnapshot
EOF == [kind |-> "EOF"]          \* io.EOF
NoFactory == [kind |-> "nofactory"]  \* a nil *builtinMetricsFactory

\* no newBuiltinMetricsTracerFactory call in progress
MetricsOff ==
    /\ emulatorAddr = ""
    /\ metricsProvider = [type |-> "nil"]
    /\ uidErr = FALSE
    /\ exporterErr = FALSE
    /\ meterFails = {}
    /\ mpc = "off"
    /\ metricsFactory = NoFactory
    /\ factoryErr = NoErr
    /\ stopped = {}

\* "projects/projectID/databases/(default)/documents", kept as one token
DocsRoot == <<"projects/projectID/databases/(default)/documents">>

Slash == "/"

(***************************************************************************)
(* strings.Split(path, "/"): one more segment than there are slashes.      *)
(***************************************************************************)
RECURSIVE SplitFrom(_, _, _)
SplitFrom(s, i, cur) ==
    IF i > Len(s) THEN <<cur>>
    ELSE IF s[i] = Slash THEN <<cur>> \o SplitFrom(s, i + 1, <<>>)
    ELSE SplitFrom(s, i + 1, Append(cur, s[i]))

Split(s) == SplitFrom(s, 1, <<>>)

(***************************************************************************)
(* References.                                                             *)
(***************************************************************************)
newTopLevelCollRef(id) ==
    [kind |-> "coll", Parent |-> NilRef, ID |-> id,
     parentPath |-> DocsRoot, selfPath |-> id,
     Path |-> DocsRoot \o <<Slash>> \o id]

newDocRef(coll, id) ==
    [kind |-> "doc", Parent |-> coll, ID |-> id,
     Path |-> coll.Path \o <<Slash>> \o id,
     shortPath |-> coll.selfPath \o <<Slash>> \o id]

\* the path is built from the documents root instead of the parent document
newCollRefWithParent_RootPath(doc, id) ==
    [kind |-> "coll", Parent |-> doc, ID |-> id,
     parentPath |-> doc.Path, selfPath |-> doc.shortPath \o <<Slash>> \o id,
     Path |-> DocsRoot \o <<Slash>> \o id]

newCollRefWithParent(doc, id) ==
    [kind |-> "coll", Parent |-> doc, ID |-> id,
     parentPath |-> doc.Path, selfPath |-> doc.shortPath \o <<Slash>> \o id,
     Path |-> doc.Path \o <<Slash>> \o id]

\* The reference the first n segments of IDs name: a collection for odd n,
\* a document for even n.
RECURSIVE RefAt(_, _)
RefAt(IDs, n) ==
    IF n = 1 THEN newTopLevelCollRef(IDs[1])
    ELSE IF n % 2 = 0 THEN newDocRef(RefAt(IDs, n - 1), IDs[n])
    ELSE newCollRefWithParent(RefAt(IDs, n - 1), IDs[n])

\* <<collection, document>>: at most one of the two is not nil.
idsToRef(IDs) ==
    IF Len(IDs) = 0 \/ \E i \in 1..Len(IDs) : IDs[i] = <<>>
    THEN <<NilRef, NilRef>>
    ELSE IF Len(IDs) % 2 = 1 THEN <<RefAt(IDs, Len(IDs)), NilRef>>
    ELSE <<NilRef, RefAt(IDs, Len(IDs))>>

Collection(path) == idsToRef(Split(path))[1]

Doc(path) == idsToRef(Split(path))[2]


(***************************************************************************)
(* Collection / Doc as a state machine: the path is drawn from the strings *)
(* over PathChars, and each of the two methods is called on it.            *)
(***************************************************************************)
PathChars == {Slash, "a", "X"}

Strings(chars, n) == UNION {[1..k -> chars] : k \in 0..n}

GetAllOff ==
    /\ docRefs = <<>>
    /\ pc = "off"
    /\ reqs = <<>>
    /\ docIndices = <<>>
    /\ resps = <<>>
    /\ recvErr = NoErr
    /\ ctxErr = NoErr
    /\ docs = NoDocs
    /\ err = NoErr

InitRef ==
    /\ refPath \in Strings(PathChars, MaxPathLen)
    /\ collOut = NotCalled
    /\ docOut = NotCalled
    /\ GetAllOff
    /\ MetricsOff

CallCollection ==
    /\ collOut = NotCalled
    /\ collOut' = Collection(refPath)
    /\ UNCHANGED <<refPath, docOut>>
    /\ UNCHANGED getVars
    /\ UNCHANGED metVars

CallDoc ==
    /\ docOut = NotCalled
    /\ docOut' = Doc(refPath)
    /\ UNCHANGED <<refPath, collOut>>
    /\ UNCHANGED getVars
    /\ UNCHANGED metVars

NextRef == CallCollection \/ CallDoc

SpecRef == InitRef /\ [][NextRef]_vars


(***************************************************************************)
(* GetAll: values.                                                         *)
(***************************************************************************)
errNilDocRef == [kind |-> "errNilDocRef"]
errInvalidUtf8DocRef == [kind |-> "errInvalidUtf8DocRef"]
\* a document appears more than once in the response
errIntegrity == [kind |-> "integrity"]
\* a gRPC status error
StatusErr(code) == [kind |-> "status", code |-> code]

TransportCodes == {"Internal", "Unavailable"}
CancelCodes == {"Canceled", "DeadlineExceeded"}

\* the bytes of a two-byte UTF-8 character: its first byte, its second byte
Lead2 == {"xC3", "xCF"}
Cont == {"xBC"}

\* utf8.ValidString over the bytes used here (ASCII and two-byte characters)
RECURSIVE ValidFrom(_, _)
ValidFrom(s, i) ==
    IF i > Len(s) THEN TRUE
    ELSE IF s[i] \in Cont THEN FALSE
    ELSE IF s[i] \in Lead2
         THEN i + 1 <= Len(s) /\ s[i + 1] \in Cont /\ ValidFrom(s, i + 2)
    ELSE ValidFrom(s, i + 1)

ValidString_AcceptAll(s) == TRUE

ValidString(s) == ValidFrom(s, 1)

\* the document IDs of collection "C" the caller names: "a", "b", a valid
\* two-byte character, and an invalid byte sequence as in "Mayag\xcfez"
DocIDs == {<<"a">>, <<"b">>, <<"xC3", "xBC">>, <<"xCF", "e">>}

CollC == <<"C">>

\* the references a caller can hand to GetAll: nil, or coll.Doc(name)
InputRefs == {NilRef} \cup {Doc(CollC \o <<Slash>> \o id) : id \in DocIDs}

\* the documents the server knows how to name in a result unit
ServerNames == {r.Path : r \in {x \in InputRefs : x # NilRef /\ ValidString(x.Path)}}

Range(f) == {f[i] : i \in DOMAIN f}

(***************************************************************************)
(* GetAll: the request.                                                    *)
(***************************************************************************)
\* every input path once, duplicates dropped, in order of first occurrence
docNames_Unique(drs) ==
    LET all == [i \in 1..Len(drs) |-> drs[i].Path]
        first == {i \in 1..Len(drs) : \A j \in 1..(i - 1) : all[j] # all[i]}
        RECURSIVE Pick(_)
        Pick(i) == IF i > Len(drs) THEN <<>>
                   ELSE (IF i \in first THEN <<all[i]>> ELSE <<>>) \o Pick(i + 1)
    IN Pick(1)

\* the request's Documents: the path of every input reference, in input
\* order, a repeated reference repeated
docNames(drs) == [i \in 1..Len(drs) |-> drs[i].Path]

\* positions of drs in increasing order whose path is name
RECURSIVE PositionsFrom(_, _, _)
PositionsFrom(drs, name, i) ==
    IF i > Len(drs) THEN <<>>
    ELSE (IF drs[i].Path = name THEN <<i>> ELSE <<>>)
         \o PositionsFrom(drs, name, i + 1)

\* only the first position of each path is remembered
buildDocIndices_FirstOnly(drs) ==
    [name \in {drs[i].Path : i \in 1..Len(drs)} |->
        <<PositionsFrom(drs, name, 1)[1]>>]

\* doc name -> positions in docRefs (1-based here, 0-based in Go)
buildDocIndices(drs) ==
    [name \in {drs[i].Path : i \in 1..Len(drs)} |-> PositionsFrom(drs, name, 1)]

BatchGetDocumentsRequest(drs) ==
    [Database |-> "projects/projectID/databases/(default)",
     Documents |-> docNames(drs)]

(***************************************************************************)
(* GetAll: the response stream.                                            *)
(***************************************************************************)
\* a BatchGetDocumentsResponse: Found carries the document, Missing its name
Found(name, t) ==
    [result |-> "found", name |-> name, doc |-> [Name |-> name], ReadTime |-> t]
Missing(name, t) ==
    [result |-> "missing", name |-> name, doc |-> NoDoc, ReadTime |-> t]

\* the units the server can send with read time t
Units(t) == {Found(n, t) : n \in ServerNames} \cup {Missing(n, t) : n \in ServerNames}

\* the server's read times are pairwise distinct (aTimestamp, aTimestamp2,
\* aTimestamp3 in the tests); the k-th unit sent is stamped k
ReadTimeOf(k) == k

(***************************************************************************)
(* GetAll: putting the results at the positions of the input.              *)
(***************************************************************************)
newDocumentSnapshot(ref, doc, readTime) ==
    [Ref |-> ref, proto |-> doc, ReadTime |-> readTime]

\* docIndices[name]: the positions of name, none for a name not requested
indicesOf(indices, name) ==
    IF name \in DOMAIN indices THEN indices[name] ELSE <<>>

\* a position of unit u already holds a snapshot, but only a unit found
\* twice is taken for a repetition
appearsTwice_FoundOnly(indices, ds, u) ==
    \E i \in Range(indicesOf(indices, u.name)) :
        ds[i] # NoSnap /\ ds[i].proto # NoDoc /\ u.result = "found"

\* a position of unit u already holds a snapshot: its document appears more
\* than once in the response
appearsTwice(indices, ds, u) ==
    \E i \in Range(indicesOf(indices, u.name)) : ds[i] # NoSnap

\* the k-th unit is put at position k
put_ByArrival(drs, indices, ds, rs, k) ==
    [i \in DOMAIN ds |->
        IF i = k THEN newDocumentSnapshot(drs[i], rs[k].doc, rs[k].ReadTime)
        ELSE ds[i]]

\* results may arrive out of order: the k-th unit is put at the positions of
\* its name
put(drs, indices, ds, rs, k) ==
    [i \in DOMAIN ds |->
        IF i \in Range(indicesOf(indices, rs[k].name))
        THEN newDocumentSnapshot(drs[i], rs[k].doc, rs[k].ReadTime)
        ELSE ds[i]]

\* the units from the k-th on are put into ds, one after the other
RECURSIVE placeFrom(_, _, _, _, _)
placeFrom(drs, indices, rs, k, ds) ==
    IF k > Len(rs) THEN <<[kind |-> "docs", list |-> ds], NoErr>>
    ELSE IF appearsTwice(indices, ds, rs[k]) THEN <<NoDocs, errIntegrity>>
    ELSE placeFrom(drs, indices, rs, k + 1, put(drs, indices, ds, rs, k))

\* as assemble, and the call fails when a unit names a document that was not
\* requested or a requested document is resolved by no unit
assemble_Strict(drs, indices, rs) ==
    IF \/ \E i \in 1..Len(rs) : rs[i].name \notin DOMAIN indices
       \/ \E name \in DOMAIN indices : \A i \in 1..Len(rs) : rs[i].name # name
    THEN <<NoDocs, errIntegrity>>
    ELSE placeFrom(drs, indices, rs, 1, [i \in 1..Len(drs) |-> NoSnap])

\* <<docs, err>> once the stream has ended cleanly with responses rs: a unit
\* for a document that was not requested has no position and is passed over,
\* and the positions of a document no unit resolved keep a nil snapshot
assemble(drs, indices, rs) ==
    placeFrom(drs, indices, rs, 1, [i \in 1..Len(drs) |-> NoSnap])

(***************************************************************************)
(* GetAll as a state machine.                                              *)
(***************************************************************************)
RefOff ==
    /\ refPath = <<>>
    /\ collOut = NotCalled
    /\ docOut = NotCalled

\* GetAll is called with a list of at most n references
InitWith(n) ==
    /\ RefOff
    /\ MetricsOff
    /\ docRefs \in UNION {[1..k -> InputRefs] : k \in 0..n}
    /\ pc = "start"
    /\ reqs = <<>>
    /\ docIndices = <<>>
    /\ resps = <<>>
    /\ recvErr = NoErr
    /\ ctxErr = NoErr
    /\ docs = NoDocs
    /\ err = NoErr

Init == InitWith(MaxRefs)

\* the local validation: the errors it can report for the list, none when
\* every reference is non-nil with a valid path.  A nil reference is
\* reported as errNilDocRef and an invalid path as errInvalidUtf8DocRef;
\* which of the two is reported for a list that has both is fixed neither
\* by the tests nor by the specification, so either can be.
validate(drs) ==
    (IF \E i \in 1..Len(drs) : drs[i] = NilRef
     THEN {errNilDocRef} ELSE {})
    \cup
    (IF \E i \in 1..Len(drs) : drs[i] # NilRef /\ ~ValidString(drs[i].Path)
     THEN {errInvalidUtf8DocRef} ELSE {})

\* GetAll up to its first Recv: validate, then send the one request
Start ==
    /\ pc = "start"
    /\ IF validate(docRefs) # {}
       THEN /\ pc' = "done"
            /\ \E e \in validate(docRefs) : err' = e
            /\ UNCHANGED <<reqs, docIndices>>
       ELSE /\ pc' = "recv"
            /\ reqs' = Append(reqs, BatchGetDocumentsRequest(docRefs))
            /\ docIndices' = buildDocIndices(docRefs)
            /\ UNCHANGED err
    /\ UNCHANGED <<docRefs, resps, recvErr, ctxErr, docs>>
    /\ UNCHANGED refVars
    /\ UNCHANGED metVars

\* Recv returns the next result unit
RecvUnit ==
    /\ pc = "recv"
    /\ ctxErr = NoErr
    /\ Len(resps) < MaxUnits
    /\ \E u \in Units(ReadTimeOf(Len(resps) + 1)) : resps' = Append(resps, u)
    /\ UNCHANGED <<docRefs, pc, reqs, docIndices, recvErr, ctxErr, docs, err>>
    /\ UNCHANGED refVars
    /\ UNCHANGED metVars

\* the results read so far are returned with the error
onRecvErr_Partial(e) == <<assemble(docRefs, docIndices, resps)[1], e>>

\* what GetAll returns when Recv fails with e: <<docs, err>>
onRecvErr(e) == <<NoDocs, e>>

\* Recv fails with a transport error
RecvErr ==
    /\ pc = "recv"
    /\ ctxErr = NoErr
    /\ \E c \in TransportCodes :
         /\ recvErr' = StatusErr(c)
         /\ docs' = onRecvErr(StatusErr(c))[1]
         /\ err' = onRecvErr(StatusErr(c))[2]
    /\ pc' = "done"
    /\ UNCHANGED <<docRefs, reqs, docIndices, resps, ctxErr>>
    /\ UNCHANGED refVars
    /\ UNCHANGED metVars

\* Recv returns io.EOF: the stream ended cleanly
RecvEOF ==
    /\ pc = "recv"
    /\ ctxErr = NoErr
    /\ recvErr' = EOF
    /\ docs' = assemble(docRefs, docIndices, resps)[1]
    /\ err' = assemble(docRefs, docIndices, resps)[2]
    /\ pc' = "done"
    /\ UNCHANGED <<docRefs, reqs, docIndices, resps, ctxErr>>
    /\ UNCHANGED refVars
    /\ UNCHANGED metVars

\* the caller cancels the context, or its deadline passes
Cancel ==
    /\ pc = "recv"
    /\ ctxErr = NoErr
    /\ \E c \in CancelCodes : ctxErr' = StatusErr(c)
    /\ UNCHANGED <<docRefs, pc, reqs, docIndices, resps, recvErr, docs, err>>
    /\ UNCHANGED refVars
    /\ UNCHANGED metVars

\* the context's end is not looked at: the stream is taken to have ended
RecvCancelled_Ignored ==
    /\ pc = "recv"
    /\ ctxErr # NoErr
    /\ recvErr' = EOF
    /\ docs' = assemble(docRefs, docIndices, resps)[1]
    /\ err' = assemble(docRefs, docIndices, resps)[2]
    /\ pc' = "done"
    /\ UNCHANGED <<docRefs, reqs, docIndices, resps, ctxErr>>
    /\ UNCHANGED refVars
    /\ UNCHANGED metVars

\* Recv on a stream whose context is done
RecvCancelled ==
    /\ pc = "recv"
    /\ ctxErr # NoErr
    /\ recvErr' = ctxErr
    /\ docs' = onRecvErr(ctxErr)[1]
    /\ err' = onRecvErr(ctxErr)[2]
    /\ pc' = "done"
    /\ UNCHANGED <<docRefs, reqs, docIndices, resps, ctxErr>>
    /\ UNCHANGED refVars
    /\ UNCHANGED metVars

Next == Start \/ RecvUnit \/ RecvErr \/ RecvEOF \/ Cancel \/ RecvCancelled

Spec == Init /\ [][Next]_vars

InitFair == InitWith(MaxFairRefs)

\* GetAll's own steps are taken while they are possible: Recv returns once
\* the context is done
FairSpec == InitFair /\ [][Next]_vars /\ WF_vars(RecvCancelled)

(***************************************************************************)
(* C10.  The path read as text, without Split.                             *)
(***************************************************************************)
Slashes(s) == {i \in 1..Len(s) : s[i] = Slash}

\* non-empty, no leading or trailing slash, no empty segment
WellFormed(s) ==
    /\ Len(s) > 0
    /\ s[1] # Slash
    /\ s[Len(s)] # Slash
    /\ \A i \in 1..(Len(s) - 1) : ~(s[i] = Slash /\ s[i + 1] = Slash)

NumSegments(s) == Cardinality(Slashes(s)) + 1

LastSlash(s) == IF Slashes(s) = {} THEN 0
                ELSE CHOOSE i \in Slashes(s) : \A j \in Slashes(s) : j <= i

LastSegment(s) == SubSeq(s, LastSlash(s) + 1, Len(s))

WithoutLast(s) == SubSeq(s, 1, LastSlash(s) - 1)

\* what C10 says of the reference r returned for path s by a method that
\* returns references of n-parity `odd`, whose parents come from `parent`
RefAsClaimed(r, s, odd, parentOf) ==
    /\ r # NilRef <=> (WellFormed(s) /\ (NumSegments(s) % 2 = 1) = odd)
    /\ r # NilRef =>
        /\ r.Path = DocsRoot \o <<Slash>> \o s
        /\ r.ID = LastSegment(s)
        /\ r.Parent = parentOf

\* C10: Collection(path) is non-nil exactly for an odd number of non-empty
\* slash-separated segments and Doc(path) exactly for an even, non-zero
\* number; every other path gives nil.  A non-nil reference has Path = the
\* documents root joined with the path, ID = the last segment, and Parent =
\* the reference for the path without its last segment (nil for a top-level
\* collection).
C10_RefShape ==
    /\ collOut # NotCalled =>
         RefAsClaimed(collOut, refPath, TRUE,
                      IF NumSegments(refPath) = 1 THEN NilRef
                      ELSE Doc(WithoutLast(refPath)))
    /\ docOut # NotCalled =>
         RefAsClaimed(docOut, refPath, FALSE, Collection(WithoutLast(refPath)))

\* Doc("X/a/X/a") returned a document under a nested collection, and
\* Collection of the same path returned nil
C10_Witness ==
    /\ refPath = <<"X", Slash, "a", Slash, "X", Slash, "a">>
    /\ docOut # NotCalled /\ docOut # NilRef
    /\ docOut.Parent.Parent.Parent # NilRef
    /\ collOut = NilRef

(***************************************************************************)
(* GetAll: the claims.  Helpers that read the input and the stream as the   *)
(* caller and the server see them, without docIndices.                     *)
(***************************************************************************)
Positions == 1..Len(docRefs)

\* s is well-formed UTF-8: every first byte of a two-byte character is
\* followed by a second byte, and every second byte follows a first byte
WellFormedUtf8(s) ==
    \A i \in 1..Len(s) :
        /\ s[i] \in Lead2 => (i < Len(s) /\ s[i + 1] \in Cont)
        /\ s[i] \in Cont => (i > 1 /\ s[i - 1] \in Lead2)

AllValid == \A i \in Positions : docRefs[i] # NilRef /\ WellFormedUtf8(docRefs[i].Path)

HasNil == \E i \in Positions : docRefs[i] = NilRef

HasInvalidUtf8 ==
    \E i \in Positions : docRefs[i] # NilRef /\ ~WellFormedUtf8(docRefs[i].Path)

RequestedNames == {docRefs[i].Path : i \in {j \in Positions : docRefs[j] # NilRef}}

DeliveredNames == {resps[k].name : k \in 1..Len(resps)}

\* the units the stream delivered for name
UnitsFor(name) == {k \in 1..Len(resps) : resps[k].name = name}

\* the stream resolved each requested path exactly once, and nothing else
ResolvesEachOnce ==
    /\ DeliveredNames = RequestedNames
    /\ \A name \in RequestedNames : Cardinality(UnitsFor(name)) = 1

\* the resolution of name: the content (or missing marker) and read time of
\* the one unit delivered for it, as a snapshot of reference ref
ResolutionOf(ref) ==
    LET k == CHOOSE k \in UnitsFor(ref.Path) : TRUE
    IN [Ref |-> ref,
        proto |-> IF resps[k].result = "found" THEN [Name |-> ref.Path] ELSE NoDoc,
        ReadTime |-> resps[k].ReadTime]

EndedCleanly == pc = "done" /\ recvErr = EOF

\* a requested path for which the stream delivered more than one unit
SomeRequestedTwice ==
    \E name \in RequestedNames : Cardinality(UnitsFor(name)) > 1

\* C1: for a list of non-nil, valid references and a stream that resolves
\* each requested path exactly once, in whatever order, GetAll succeeds with
\* a list as long as the input whose entry i is the resolution of input
\* reference i's path (content or missing marker, with that unit's read time).
C1_InputOrder ==
    (AllValid /\ EndedCleanly /\ ResolvesEachOnce) =>
        /\ err = NoErr
        /\ docs.kind = "docs"
        /\ Len(docs.list) = Len(docRefs)
        /\ \A i \in Positions : docs.list[i] = ResolutionOf(docRefs[i])

\* input [a, b, u], delivered u (found), a (found), b (missing): the order of
\* the test, and the call returned
C1_Witness ==
    /\ Len(docRefs) = 3
    /\ AllValid
    /\ docRefs[1].ID = <<"a">> /\ docRefs[2].ID = <<"b">>
    /\ docRefs[3].ID = <<"xC3", "xBC">>
    /\ Len(resps) = 3
    /\ resps[1].name = docRefs[3].Path /\ resps[1].result = "found"
    /\ resps[2].name = docRefs[1].Path /\ resps[2].result = "found"
    /\ resps[3].name = docRefs[2].Path /\ resps[3].result = "missing"
    /\ EndedCleanly
    /\ err = NoErr

\* C2: when a path occurs k >= 1 times in the input, the output is as long as
\* the input and the one resolution the stream gave for the path sits at
\* exactly the k positions of the path, each with that unit's read time;
\* for found and for missing paths alike.
C2_Duplicates ==
    (AllValid /\ EndedCleanly /\ ResolvesEachOnce) =>
        /\ docs # NoDocs
        /\ DOMAIN docs.list = Positions
        /\ \A name \in RequestedNames :
             LET k == CHOOSE k \in UnitsFor(name) : TRUE
                 at == {i \in Positions : /\ docs.list[i] # NoSnap
                                          /\ docs.list[i].Ref.Path = name}
             IN /\ at = {i \in Positions : docRefs[i].Path = name}
                /\ \A i \in at :
                     /\ docs.list[i].ReadTime = resps[k].ReadTime
                     /\ (docs.list[i].proto = NoDoc) = (resps[k].result = "missing")

\* input [a, b, a] with a missing and b found: a's one resolution is returned
\* at positions 1 and 3
C2_Witness ==
    /\ Len(docRefs) = 3
    /\ AllValid /\ EndedCleanly /\ ResolvesEachOnce
    /\ docRefs[1] = docRefs[3] /\ docRefs[1] # docRefs[2]
    /\ \E k \in 1..Len(resps) :
         resps[k].name = docRefs[1].Path /\ resps[k].result = "missing"
    /\ docs # NoDocs
    /\ docs.list[1].ReadTime = docs.list[3].ReadTime

Sent == pc \in {"recv", "done"} /\ reqs # <<>>

\* C3 as stated: the request names each unique path once, so it holds as
\* many paths as the input has distinct paths.
C3_Original ==
    Sent => Len(reqs[1].Documents) = Cardinality(RequestedNames)

\* C3, amended: the one request names the path of every input reference, in
\* input order, a repeated reference repeated (as many paths as the input is
\* long), and the mapping from each path to all its input positions is kept.
C3_RequestPaths ==
    Sent =>
        /\ Len(reqs) = 1
        /\ Len(reqs[1].Documents) = Len(docRefs)
        /\ \A i \in Positions : reqs[1].Documents[i] = docRefs[i].Path
        /\ DOMAIN docIndices = RequestedNames
        /\ \A name \in RequestedNames :
             {docIndices[name][k] : k \in 1..Len(docIndices[name])}
                 = {i \in Positions : docRefs[i].Path = name}

\* the request for input [a, b, a] was sent
C3_Witness ==
    /\ Sent
    /\ Len(docRefs) = 3
    /\ docRefs[1] = docRefs[3] /\ docRefs[1] # docRefs[2]

\* a validation error is one of the two local errors
ValidationErrors == {errNilDocRef, errInvalidUtf8DocRef}

\* With a nil reference anywhere in the input no request is ever sent and
\* the call fails locally; the error is errNilDocRef when no other element
\* has an invalid path.
NilRefFailsLocally ==
    HasNil =>
        /\ reqs = <<>>
        /\ pc \in {"start", "done"}
        /\ pc = "done" => (err \in ValidationErrors /\ docs = NoDocs)
        /\ (pc = "done" /\ ~HasInvalidUtf8) => err = errNilDocRef

FoundAndMissing ==
    \E i, j \in 1..Len(resps) :
        /\ resps[i].name = resps[j].name
        /\ resps[i].result = "found"
        /\ resps[j].result = "missing"

\* the stream reported one requested path both as found and as missing
RequestedFoundAndMissing ==
    \E i, j \in 1..Len(resps) :
        /\ resps[i].name = resps[j].name
        /\ resps[i].name \in RequestedNames
        /\ resps[i].result = "found"
        /\ resps[j].result = "missing"

\* C6 as stated, for a path that was requested: a path reported both found
\* and missing makes the call fail with the integrity error.
C6_Original ==
    (pc = "done" /\ AllValid /\ RequestedFoundAndMissing) =>
        (err = errIntegrity /\ docs = NoDocs)

\* C6, amended: a requested path reported both found and missing makes the
\* call fail and return no snapshots; when the stream then ends cleanly the
\* error is the integrity error, which is no status (transport) error; when
\* the transport fails or the context ends first, that error is returned.  A
\* found/missing pair for a path that was not requested is passed over.
C6_Conflict ==
    /\ (pc = "done" /\ AllValid /\ RequestedFoundAndMissing) =>
          /\ err # NoErr
          /\ docs = NoDocs
          /\ recvErr = EOF => (err = errIntegrity /\ err.kind # "status")
          /\ recvErr # EOF => err = recvErr
    /\ (EndedCleanly /\ AllValid /\ FoundAndMissing /\ ~SomeRequestedTwice)
          => err = NoErr

\* missing, then found, for the one requested path, and a clean end
C6_Witness ==
    /\ Len(docRefs) = 1
    /\ Len(resps) = 2
    /\ resps[1].result = "missing" /\ resps[2].result = "found"
    /\ resps[1].name = docRefs[1].Path /\ resps[2].name = docRefs[1].Path
    /\ EndedCleanly

\* C7: a transport error from Recv, after any number of units, is returned
\* as it is, with no snapshots.
C7_TransportError ==
    (pc = "done" /\ recvErr.kind = "status" /\ ctxErr = NoErr) =>
        /\ err = recvErr
        /\ err.code \in TransportCodes
        /\ docs = NoDocs

\* Internal after two valid units for a two-document request
C7_Witness ==
    /\ pc = "done"
    /\ recvErr = StatusErr("Internal")
    /\ Len(docRefs) = 2
    /\ Len(resps) = 2
    /\ ResolvesEachOnce

\* C8 as stated: the call fails when the stream ends cleanly with a
\* requested path unresolved, and when a unit names a path that was not
\* requested; it succeeds only if the resolved paths are exactly the
\* requested ones.
C8_Original ==
    (pc = "done" /\ AllValid) =>
        /\ (recvErr = EOF /\ RequestedNames \ DeliveredNames # {})
               => (err # NoErr /\ docs = NoDocs)
        /\ (DeliveredNames \ RequestedNames # {})
               => (err # NoErr /\ docs = NoDocs)
        /\ err = NoErr => DeliveredNames = RequestedNames

\* C8, amended: when the stream ends cleanly the call fails exactly if a
\* requested path was resolved by more than one unit.  Otherwise it succeeds:
\* a position whose path was resolved holds that resolution, a position whose
\* path no unit resolved holds a nil snapshot, and units for paths that were
\* not requested change nothing.
C8_Completeness ==
    (EndedCleanly /\ AllValid) =>
        /\ err # NoErr <=> SomeRequestedTwice
        /\ err # NoErr => docs = NoDocs
        /\ err = NoErr =>
             /\ docs.kind = "docs"
             /\ Len(docs.list) = Len(docRefs)
             /\ \A i \in Positions :
                  docs.list[i] = IF docRefs[i].Path \in DeliveredNames
                                 THEN ResolutionOf(docRefs[i])
                                 ELSE NoSnap

\* two documents requested; the stream resolved the first, named a third that
\* was not requested, and ended: the call succeeded with a nil snapshot at
\* the second position
C8_Witness ==
    /\ EndedCleanly
    /\ AllValid
    /\ Len(docRefs) = 2
    /\ Cardinality(RequestedNames) = 2
    /\ docRefs[1].Path \in DeliveredNames
    /\ docRefs[2].Path \notin DeliveredNames
    /\ DeliveredNames \ RequestedNames # {}
    /\ err = NoErr
    /\ docs.list[2] = NoSnap

\* C9: once the context is cancelled or past its deadline while the stream
\* is read, the call ends with that cancellation error and no snapshots,
\* whatever was received before.
C9_Cancellation ==
    (ctxErr # NoErr) ~>
        (/\ pc = "done"
         /\ err = ctxErr
         /\ err.kind = "status" /\ err.code \in CancelCodes
         /\ docs = NoDocs)

\* the call returned after a cancellation that came when every requested
\* document had been received
C9_Witness ==
    /\ pc = "done"
    /\ ctxErr = StatusErr("Canceled")
    /\ Len(docRefs) = 2
    /\ ResolvesEachOnce
    /\ err = ctxErr

(***************************************************************************)
(* spanner/metrics.go: the built-in metrics factory                        *)
(***************************************************************************)

metricNameOperationLatencies == "operation_latencies"
metricNameAttemptLatencies == "attempt_latencies"
metricNameOperationCount == "operation_count"
metricNameAttemptCount == "attempt_count"

MetricNames ==
    {metricNameOperationLatencies, metricNameAttemptLatencies,
     metricNameOperationCount, metricNameAttemptCount}

\* the MetricsProvider values a caller can pass: no provider, the two
\* provider types of the package, and a value of any other type that
\* carries the interface's method (a pointer to one of the two, say); a
\* custom provider carries the caller's meter provider
NoopMetricsProvider == [type |-> "NoopMetricsProvider"]
CustomOpenTelemetryMetricsProvider(mp) ==
    [type |-> "CustomOpenTelemetryMetricsProvider", MeterProvider |-> mp]
MetricsProviders ==
    {[type |-> "nil"], NoopMetricsProvider,
     CustomOpenTelemetryMetricsProvider("custom"), [type |-> "other"]}

\* the errors of the factory
ErrOf(what) == [kind |-> "error", msg |-> what]
errUnknownProvider == ErrOf("Unknown MetricsProvider type")

\* generateClientUID's result as newBuiltinMetricsTracerFactory keeps it:
\* the error is logged and the empty uid is used
clientUIDOf(failed) == IF failed THEN "" ELSE "go-uuid@host"

\* createBuiltInMeterProviderOptions: the options of the default meter
\* provider, or the exporter's error
createBuiltInMeterProviderOptions(failed) ==
    IF failed THEN [opts |-> "nil", err |-> ErrOf("newMonitoringExporter")]
    ELSE [opts |-> "reader", err |-> NoErr]

\* the function values the shutdown field can hold
noopShutdown == [kind |-> "func", stops |-> {}]
shutdownOf(mp) == [kind |-> "func", stops |-> {mp}]

\* the factory built before any check
emptyFactory(uid) ==
    [builtinEnabled |-> FALSE,
     shutdown |-> noopShutdown,
     clientUID |-> uid,
     operationLatencies |-> "unset",
     attemptLatencies |-> "unset",
     operationCount |-> "unset",
     attemptCount |-> "unset"]

\* what the meter returns for one instrument: the instrument and an error
newInstrument(name, fails) ==
    IF name \in fails THEN [inst |-> "invalid", err |-> ErrOf(name)]
    ELSE [inst |-> "valid", err |-> NoErr]

\* createInstruments: the two histograms are created and checked in turn;
\* the error of operation_count is overwritten by that of attempt_count,
\* which is the one returned
createInstruments(mf, fails) ==
    LET ol == newInstrument(metricNameOperationLatencies, fails)
        al == newInstrument(metricNameAttemptLatencies, fails)
        oc == newInstrument(metricNameOperationCount, fails)
        ac == newInstrument(metricNameAttemptCount, fails)
        mf1 == [mf EXCEPT !.operationLatencies = ol.inst]
        mf2 == [mf1 EXCEPT !.attemptLatencies = al.inst]
        mf3 == [mf2 EXCEPT !.operationCount = oc.inst]
        mf4 == [mf3 EXCEPT !.attemptCount = ac.inst]
    IN  IF ol.err # NoErr THEN [mf |-> mf1, err |-> ol.err]
        ELSE IF al.err # NoErr THEN [mf |-> mf2, err |-> al.err]
        ELSE [mf |-> mf4, err |-> ac.err]

\* is the emulator variable set?
emulatorSet_Never(addr) == FALSE

emulatorSet(addr) == addr # ""

\* the nil-provider branch once the exporter exists: the factory creates
\* the default meter provider and owns its shutdown
defaultMeterProvider(mf) ==
    [mf |-> [mf EXCEPT !.builtinEnabled = TRUE,
                       !.shutdown = shutdownOf("default")],
     meterProvider |-> "default"]

\* the custom branch with the caller's provider shut down by the factory
customMeterProvider_Owned(mf, v) ==
    [mf |-> [mf EXCEPT !.builtinEnabled = TRUE,
                       !.shutdown = shutdownOf(v.MeterProvider)],
     meterProvider |-> v.MeterProvider]

\* the CustomOpenTelemetryMetricsProvider branch: the caller's meter
\* provider is used and the shutdown function is left as it was
customMeterProvider(mf, v) ==
    [mf |-> [mf EXCEPT !.builtinEnabled = TRUE],
     meterProvider |-> v.MeterProvider]

\* newBuiltinMetricsTracerFactory(ctx, dbpath, metricsProvider): the
\* returned factory and error
newBuiltinMetricsTracerFactory(addr, provider, uidFailed, expFailed, fails) ==
    LET mf0 == emptyFactory(clientUIDOf(uidFailed))
        o == createBuiltInMeterProviderOptions(expFailed)
    IN  IF emulatorSet(addr) THEN [mf |-> mf0, err |-> NoErr]
        ELSE IF provider.type = "nil"
        THEN IF o.err # NoErr THEN [mf |-> mf0, err |-> o.err]
             ELSE createInstruments(defaultMeterProvider(mf0).mf, fails)
        ELSE IF provider.type = "CustomOpenTelemetryMetricsProvider"
        THEN createInstruments(customMeterProvider(mf0, provider).mf, fails)
        ELSE IF provider.type = "NoopMetricsProvider"
        THEN [mf |-> mf0, err |-> NoErr]
        ELSE [mf |-> mf0, err |-> errUnknownProvider]

\* the values of the emulator variable
EmulatorAddrs == {"", "localhost:9010"}

InitMetrics ==
    /\ RefOff
    /\ GetAllOff
    /\ emulatorAddr \in EmulatorAddrs
    /\ metricsProvider \in MetricsProviders
    /\ uidErr \in BOOLEAN
    /\ exporterErr \in BOOLEAN
    /\ meterFails \in SUBSET MetricNames
    /\ mpc = "start"
    /\ metricsFactory = NoFactory
    /\ factoryErr = NoErr
    /\ stopped = {}

\* the client calls newBuiltinMetricsTracerFactory
NewFactory ==
    /\ mpc = "start"
    /\ LET r == newBuiltinMetricsTracerFactory(emulatorAddr, metricsProvider,
                                               uidErr, exporterErr, meterFails)
       IN  /\ metricsFactory' = r.mf
           /\ factoryErr' = r.err
    /\ mpc' = "returned"
    /\ UNCHANGED <<emulatorAddr, metricsProvider, uidErr, exporterErr,
                   meterFails, stopped>>
    /\ UNCHANGED refVars
    /\ UNCHANGED getVars

\* the client calls the factory's shutdown function
Shutdown ==
    /\ mpc = "returned"
    /\ stopped' = stopped \cup metricsFactory.shutdown.stops
    /\ mpc' = "closed"
    /\ UNCHANGED <<emulatorAddr, metricsProvider, uidErr, exporterErr,
                   meterFails, metricsFactory, factoryErr>>
    /\ UNCHANGED refVars
    /\ UNCHANGED getVars

NextMetrics == NewFactory \/ Shutdown

SpecMetrics == InitMetrics /\ [][NextMetrics]_vars

(***************************************************************************)
(* Claims about the built-in metrics factory                               *)
(***************************************************************************)

Returned == mpc \in {"returned", "closed"}
EmulatorIsSet == emulatorAddr # ""
ProviderIs(t) == metricsProvider.type = t
InstrumentsOf(mf) ==
    <<mf.operationLatencies, mf.attemptLatencies, mf.operationCount,
      mf.attemptCount>>
NoInstruments(mf) == \A k \in 1..4 : InstrumentsOf(mf)[k] = "unset"
AllInstruments(mf) == \A k \in 1..4 : InstrumentsOf(mf)[k] = "valid"

\* the inputs under which the claim lets built-in metrics be enabled
MayEnable ==
    /\ ~EmulatorIsSet
    /\ \/ ProviderIs("nil") /\ ~exporterErr
       \/ ProviderIs("CustomOpenTelemetryMetricsProvider")

\* C11: the returned factory has builtinEnabled = true, or any instrument,
\* only when the emulator variable is unset and either the provider is nil
\* and the default exporter was created, or the provider is a
\* CustomOpenTelemetryMetricsProvider; with the emulator variable set or a
\* NoopMetricsProvider it is disabled, with a nil error and no instruments;
\* with a provider of another type it is disabled with a non-nil error,
\* unless the emulator variable is set, which wins.
C11_Enablement ==
    Returned =>
        /\ metricsFactory.builtinEnabled => MayEnable
        /\ ~NoInstruments(metricsFactory) => MayEnable
        /\ (EmulatorIsSet \/ ProviderIs("NoopMetricsProvider")) =>
              /\ ~metricsFactory.builtinEnabled
              /\ factoryErr = NoErr
              /\ NoInstruments(metricsFactory)
        /\ (~EmulatorIsSet /\ ProviderIs("other")) =>
              /\ ~metricsFactory.builtinEnabled
              /\ factoryErr # NoErr

\* a call without a provider and without the emulator returned an enabled
\* factory with its four instruments
C11_Witness ==
    /\ mpc = "returned"
    /\ ~EmulatorIsSet
    /\ ProviderIs("nil")
    /\ metricsFactory.builtinEnabled
    /\ AllInstruments(metricsFactory)
    /\ factoryErr = NoErr

\* C12: when newBuiltinMetricsTracerFactory ran createInstruments, the error
\* it returned is non-nil whenever the meter fails the creation of any of
\* the four instruments, and a nil error means the four instrument fields
\* are validly set.
C12_ErrorOnAnyFailure ==
    (Returned /\ MayEnable) =>
        /\ meterFails # {} => factoryErr # NoErr
        /\ factoryErr = NoErr => AllInstruments(metricsFactory)

\* C13: the returned factory is never nil and its shutdown field is a
\* function, on every return path; the function shuts down the default
\* meter provider when the factory created it (no provider argument) and
\* nothing otherwise, so that a caller's meter provider is never shut down.
C13_Shutdown ==
    Returned =>
        /\ metricsFactory # NoFactory
        /\ metricsFactory.shutdown.kind = "func"
        /\ metricsFactory.shutdown.stops =
              (IF MayEnable /\ ProviderIs("nil") THEN {"default"} ELSE {})
        /\ "custom" \notin stopped
        /\ mpc = "closed" => stopped = metricsFactory.shutdown.stops

\* the shutdown function of a factory enabled over the caller's meter
\* provider was called
C13_Witness ==
    /\ mpc = "closed"
    /\ ProviderIs("CustomOpenTelemetryMetricsProvider")
    /\ metricsFactory.builtinEnabled
    /\ stopped = {}

=============================================================================
